---- MODULE Spec2Model ----
(* Model of the AD5328 driver (src/src/lib.rs): the command encoders, the     *)
(* transaction sequencer `write` and the public operations of the handle,     *)
(* run against a mock bus and a mock control line whose calls may fail.       *)
EXTENDS Integers, Sequences

VARIABLES
    handle,   \* "none": no Ad5328 value exists; "live": init returned Ok(handle)
    cmd_buf,  \* Ad5328.cmd_buf, the two-byte transmit buffer
    enable,   \* level last driven successfully on the control line
    call      \* the most recent call of a public operation and what it did

vars == <<handle, cmd_buf, enable, call>>

------------------------------------------------------------------------------
(* Machine integers *)

U16Bits == 16
U8Bits == 8
MaxValue == 4095

Pow2(n) == 2 ^ n

RECURSIVE BitOr(_, _)
BitOr(a, b) ==
    IF a = 0 THEN b
    ELSE IF b = 0 THEN a
    ELSE (IF a % 2 = 1 \/ b % 2 = 1 THEN 1 ELSE 0) + 2 * BitOr(a \div 2, b \div 2)

RECURSIVE BitAnd(_, _)
BitAnd(a, b) ==
    IF a = 0 \/ b = 0 THEN 0
    ELSE (IF a % 2 = 1 /\ b % 2 = 1 THEN 1 ELSE 0) + 2 * BitAnd(a \div 2, b \div 2)

\* u16 `<<`: bits shifted past bit 15 are lost
Shl16(a, n) == (a * Pow2(n)) % Pow2(U16Bits)

Shr(a, n) == a \div Pow2(n)

\* `as u8`: truncation to the low 8 bits
AsU8(a) == a % Pow2(U8Bits)

Bit(w, n) == (w \div Pow2(n)) % 2

------------------------------------------------------------------------------
(* The enumerations and their discriminants (`*self as u16`) *)

ChannelOrder == <<"A", "B", "C", "D", "E", "F", "G", "H">>
Channel == {ChannelOrder[i] : i \in 1..Len(ChannelOrder)}

GAINOrder == <<"Gain0Vref", "Gain02Vref">>
GAIN == {GAINOrder[i] : i \in 1..Len(GAINOrder)}

BUFOrder == <<"Unbuffered", "Buffered">>
BUF == {BUFOrder[i] : i \in 1..Len(BUFOrder)}

VDDOrder == <<"ExternalRef", "VddAsRef">>
VDD == {VDDOrder[i] : i \in 1..Len(VDDOrder)}

LDACOrder == <<"LdacLow", "LdacHigh", "LdacSingleUpdate">>
LDAC == {LDACOrder[i] : i \in 1..Len(LDACOrder)}

\* the discriminant of variant v of an enum declared in the order `order`
Discr(order, v) == (CHOOSE i \in 1..Len(order) : order[i] = v) - 1

Channel_as_u16_shift11(c) == Shl16(Discr(ChannelOrder, c), 11)

Channel_as_u16(c) == Shl16(Discr(ChannelOrder, c), 12)

GAIN_as_u16_shift5(g) == Shl16(Discr(GAINOrder, g), 5)

GAIN_as_u16(g) == Shl16(Discr(GAINOrder, g), 4)

BUF_as_u16(b) == Shl16(Discr(BUFOrder, b), 2)

VDD_as_u16(v) == Discr(VDDOrder, v)

\* the latch-mode command, were its identifier 0xc000
LDAC_as_u16_base_c000(l) == BitOr(49152, Discr(LDACOrder, l))

LDAC_as_u16(l) == BitOr(40960, Discr(LDACOrder, l))

Ad5328Config ==
    [gain : GAIN \X GAIN, buf : BUF \X BUF, vdd : VDD \X VDD, ldac : LDAC]

DefaultConfig ==
    [gain |-> <<"Gain0Vref", "Gain0Vref">>,
     buf  |-> <<"Buffered", "Buffered">>,
     vdd  |-> <<"ExternalRef", "ExternalRef">>,
     ldac |-> "LdacHigh"]

\* the two commands, were the latch-mode word put first
as_commands_latch_first(config) ==
    << LDAC_as_u16(config.ldac),
       BitOr(BitOr(BitOr(BitOr(BitOr(BitOr(32768,
           GAIN_as_u16(config.gain[1])),
           Shl16(GAIN_as_u16(config.gain[2]), 1)),
           BUF_as_u16(config.buf[1])),
           Shl16(BUF_as_u16(config.buf[2]), 1)),
           VDD_as_u16(config.vdd[1])),
           Shl16(VDD_as_u16(config.vdd[2]), 1)) >>

as_commands(config) ==
    << BitOr(BitOr(BitOr(BitOr(BitOr(BitOr(32768,
           GAIN_as_u16(config.gain[1])),
           Shl16(GAIN_as_u16(config.gain[2]), 1)),
           BUF_as_u16(config.buf[1])),
           Shl16(BUF_as_u16(config.buf[2]), 1)),
           VDD_as_u16(config.vdd[1])),
           Shl16(VDD_as_u16(config.vdd[2]), 1)),
       LDAC_as_u16(config.ldac) >>

reset_cmd_swapped(full_reset) == IF full_reset THEN 57344 ELSE 61440

reset_cmd(full_reset) == IF full_reset THEN 61440 ELSE 57344

power_down_bit_from_1(power_down, n) ==
    Shl16(IF power_down THEN 1 ELSE 0, n + 1)

power_down_bit(power_down, n) == Shl16(IF power_down THEN 1 ELSE 0, n)

\* the loop of power_down after its first k iterations (n = 0 .. k-1); the
\* mask entry of index n is channels[n + 1]
RECURSIVE power_down_cmd(_, _)
power_down_cmd(channels, k) ==
    IF k = 0 THEN 49152
    ELSE BitOr(power_down_cmd(channels, k - 1),
               power_down_bit(channels[k], k - 1))

Masks == [1..8 -> BOOLEAN]

------------------------------------------------------------------------------
(* The mock transport: what happens to the calls of one frame *)

NumErr == 2
ErrVals == 1..NumErr

NoFail == [step |-> "none", err |-> 0]
Outcomes ==
    {NoFail} \cup [step : {"set_low", "write", "set_high"}, err : ErrVals]

Ok == [kind |-> "Ok", err |-> 0]
\* the error constructors, were Error::Pin and Error::Spi taken for each other
Err_kinds_swapped(kind, e) ==
    [kind |-> IF kind = "Pin" THEN "Spi" ELSE IF kind = "Spi" THEN "Pin" ELSE kind,
     err |-> e]

Err(kind, e) == [kind |-> kind, err |-> e]

\* one call on the control line or on the bus, as the mock records it; err is
\* the error value the call returned, 0 when it succeeded
PinCall(name, e) == [call |-> name, bytes |-> <<>>, ok |-> e = 0, err |-> e]
BusCall(bytes, e) == [call |-> "write", bytes |-> bytes, ok |-> e = 0, err |-> e]

\* the two bytes of a command word as write stores them in cmd_buf
cmd_bytes_low_first(cmd) == <<AsU8(BitAnd(cmd, 255)), AsU8(Shr(cmd, 8))>>

cmd_bytes(cmd) == <<AsU8(Shr(cmd, 8)), AsU8(BitAnd(cmd, 255))>>

\* write, were it to raise the line again after a failed bus write
write_release_on_error(buf, en, cmd, f) ==
    IF f.step = "set_low"
    THEN [cmd_buf |-> buf, enable |-> en,
          calls |-> <<PinCall("set_low", f.err)>>,
          result |-> Err("Pin", f.err)]
    ELSE LET b == cmd_bytes(cmd) IN
         IF f.step = "write"
         THEN [cmd_buf |-> b, enable |-> "high",
               calls |-> <<PinCall("set_low", 0), BusCall(b, f.err),
                           PinCall("set_high", 0)>>,
               result |-> Err("Spi", f.err)]
         ELSE IF f.step = "set_high"
         THEN [cmd_buf |-> b, enable |-> "low",
               calls |-> <<PinCall("set_low", 0), BusCall(b, 0),
                           PinCall("set_high", f.err)>>,
               result |-> Err("Pin", f.err)]
         ELSE [cmd_buf |-> b, enable |-> "high",
               calls |-> <<PinCall("set_low", 0), BusCall(b, 0),
                           PinCall("set_high", 0)>>,
               result |-> Ok]

\* write, were it to OR the bytes of the word into the buffer
write_or_into_buf(buf, en, cmd, f) ==
    IF f.step = "set_low"
    THEN [cmd_buf |-> buf, enable |-> en,
          calls |-> <<PinCall("set_low", f.err)>>,
          result |-> Err("Pin", f.err)]
    ELSE LET b == <<BitOr(buf[1], cmd_bytes(cmd)[1]),
                    BitOr(buf[2], cmd_bytes(cmd)[2])>> IN
         IF f.step = "write"
         THEN [cmd_buf |-> b, enable |-> "low",
               calls |-> <<PinCall("set_low", 0), BusCall(b, f.err)>>,
               result |-> Err("Spi", f.err)]
         ELSE IF f.step = "set_high"
         THEN [cmd_buf |-> b, enable |-> "low",
               calls |-> <<PinCall("set_low", 0), BusCall(b, 0),
                           PinCall("set_high", f.err)>>,
               result |-> Err("Pin", f.err)]
         ELSE [cmd_buf |-> b, enable |-> "high",
               calls |-> <<PinCall("set_low", 0), BusCall(b, 0),
                           PinCall("set_high", 0)>>,
               result |-> Ok]

\* write, were it to go on after a failed set_low (no `?` on that call)
write_ignore_low_error(buf, en, cmd, f) ==
    LET b == cmd_bytes(cmd) IN
    IF f.step = "set_low"
    THEN [cmd_buf |-> b, enable |-> "high",
          calls |-> <<PinCall("set_low", f.err), BusCall(b, 0),
                      PinCall("set_high", 0)>>,
          result |-> Ok]
    ELSE IF f.step = "write"
    THEN [cmd_buf |-> b, enable |-> "low",
          calls |-> <<PinCall("set_low", 0), BusCall(b, f.err)>>,
          result |-> Err("Spi", f.err)]
    ELSE IF f.step = "set_high"
    THEN [cmd_buf |-> b, enable |-> "low",
          calls |-> <<PinCall("set_low", 0), BusCall(b, 0),
                      PinCall("set_high", f.err)>>,
          result |-> Err("Pin", f.err)]
    ELSE [cmd_buf |-> b, enable |-> "high",
          calls |-> <<PinCall("set_low", 0), BusCall(b, 0),
                      PinCall("set_high", 0)>>,
          result |-> Ok]

\* write, were it to try set_low a second time after it failed
write_retry_set_low(buf, en, cmd, f) ==
    IF f.step = "set_low"
    THEN [cmd_buf |-> buf, enable |-> en,
          calls |-> <<PinCall("set_low", f.err), PinCall("set_low", f.err)>>,
          result |-> Err("Pin", f.err)]
    ELSE LET b == cmd_bytes(cmd) IN
         IF f.step = "write"
         THEN [cmd_buf |-> b, enable |-> "low",
               calls |-> <<PinCall("set_low", 0), BusCall(b, f.err)>>,
               result |-> Err("Spi", f.err)]
         ELSE IF f.step = "set_high"
         THEN [cmd_buf |-> b, enable |-> "low",
               calls |-> <<PinCall("set_low", 0), BusCall(b, 0),
                           PinCall("set_high", f.err)>>,
               result |-> Err("Pin", f.err)]
         ELSE [cmd_buf |-> b, enable |-> "high",
               calls |-> <<PinCall("set_low", 0), BusCall(b, 0),
                           PinCall("set_high", 0)>>,
               result |-> Ok]

\* write, were it to raise the line before the bus write instead of after it
write_high_before_bus(buf, en, cmd, f) ==
    IF f.step = "set_low"
    THEN [cmd_buf |-> buf, enable |-> en,
          calls |-> <<PinCall("set_low", f.err)>>,
          result |-> Err("Pin", f.err)]
    ELSE LET b == cmd_bytes(cmd) IN
         IF f.step = "set_high"
         THEN [cmd_buf |-> b, enable |-> "low",
               calls |-> <<PinCall("set_low", 0), PinCall("set_high", f.err)>>,
               result |-> Err("Pin", f.err)]
         ELSE IF f.step = "write"
         THEN [cmd_buf |-> b, enable |-> "high",
               calls |-> <<PinCall("set_low", 0), PinCall("set_high", 0),
                           BusCall(b, f.err)>>,
               result |-> Err("Spi", f.err)]
         ELSE [cmd_buf |-> b, enable |-> "high",
               calls |-> <<PinCall("set_low", 0), PinCall("set_high", 0),
                           BusCall(b, 0)>>,
               result |-> Ok]

\* write, were it to store only the low byte of the word (cmd_buf[0] keeps
\* what the word before left there)
write_low_byte_only(buf, en, cmd, f) ==
    IF f.step = "set_low"
    THEN [cmd_buf |-> buf, enable |-> en,
          calls |-> <<PinCall("set_low", f.err)>>,
          result |-> Err("Pin", f.err)]
    ELSE LET b == <<buf[1], cmd_bytes(cmd)[2]>> IN
         IF f.step = "write"
         THEN [cmd_buf |-> b, enable |-> "low",
               calls |-> <<PinCall("set_low", 0), BusCall(b, f.err)>>,
               result |-> Err("Spi", f.err)]
         ELSE IF f.step = "set_high"
         THEN [cmd_buf |-> b, enable |-> "low",
               calls |-> <<PinCall("set_low", 0), BusCall(b, 0),
                           PinCall("set_high", f.err)>>,
               result |-> Err("Pin", f.err)]
         ELSE [cmd_buf |-> b, enable |-> "high",
               calls |-> <<PinCall("set_low", 0), BusCall(b, 0),
                           PinCall("set_high", 0)>>,
               result |-> Ok]

\* write, were it to fill the buffer before it drives the line low
write_fill_before_low(buf, en, cmd, f) ==
    LET b == cmd_bytes(cmd) IN
    IF f.step = "set_low"
    THEN [cmd_buf |-> b, enable |-> en,
          calls |-> <<PinCall("set_low", f.err)>>,
          result |-> Err("Pin", f.err)]
    ELSE IF f.step = "write"
    THEN [cmd_buf |-> b, enable |-> "low",
          calls |-> <<PinCall("set_low", 0), BusCall(b, f.err)>>,
          result |-> Err("Spi", f.err)]
    ELSE IF f.step = "set_high"
    THEN [cmd_buf |-> b, enable |-> "low",
          calls |-> <<PinCall("set_low", 0), BusCall(b, 0),
                      PinCall("set_high", f.err)>>,
          result |-> Err("Pin", f.err)]
    ELSE [cmd_buf |-> b, enable |-> "high",
          calls |-> <<PinCall("set_low", 0), BusCall(b, 0),
                      PinCall("set_high", 0)>>,
          result |-> Ok]

\* Ad5328::write on a handle whose buffer is buf and whose line is at en
write(buf, en, cmd, f) ==
    IF f.step = "set_low"
    THEN [cmd_buf |-> buf, enable |-> en,
          calls |-> <<PinCall("set_low", f.err)>>,
          result |-> Err("Pin", f.err)]
    ELSE LET b == cmd_bytes(cmd) IN
         IF f.step = "write"
         THEN [cmd_buf |-> b, enable |-> "low",
               calls |-> <<PinCall("set_low", 0), BusCall(b, f.err)>>,
               result |-> Err("Spi", f.err)]
         ELSE IF f.step = "set_high"
         THEN [cmd_buf |-> b, enable |-> "low",
               calls |-> <<PinCall("set_low", 0), BusCall(b, 0),
                           PinCall("set_high", f.err)>>,
               result |-> Err("Pin", f.err)]
         ELSE [cmd_buf |-> b, enable |-> "high",
               calls |-> <<PinCall("set_low", 0), BusCall(b, 0),
                           PinCall("set_high", 0)>>,
               result |-> Ok]

WithCmds(r, cmds) ==
    [cmd_buf |-> r.cmd_buf, enable |-> r.enable, calls |-> r.calls,
     result |-> r.result, cmds |-> cmds]

\* the loop, were it to go on with the next word after a failed one
RECURSIVE write_each_keep_going(_, _, _, _, _)
write_each_keep_going(buf, en, cmds, fs, i) ==
    IF i > Len(cmds)
    THEN [cmd_buf |-> buf, enable |-> en, calls |-> <<>>, result |-> Ok,
          cmds |-> <<>>]
    ELSE LET r == write(buf, en, cmds[i], fs[i])
             rest == write_each_keep_going(r.cmd_buf, r.enable, cmds, fs, i + 1) IN
         [cmd_buf |-> rest.cmd_buf, enable |-> rest.enable,
          calls |-> r.calls \o rest.calls,
          result |-> IF r.result # Ok THEN r.result ELSE rest.result,
          cmds |-> <<cmds[i]>> \o rest.cmds]

\* the loop of Ad5328::configure from the i-th command on; fs[i] is what the
\* transport does to the i-th frame
RECURSIVE write_each(_, _, _, _, _)
write_each(buf, en, cmds, fs, i) ==
    IF i > Len(cmds)
    THEN [cmd_buf |-> buf, enable |-> en, calls |-> <<>>, result |-> Ok,
          cmds |-> <<>>]
    ELSE LET r == write(buf, en, cmds[i], fs[i]) IN
         IF r.result # Ok
         THEN WithCmds(r, <<cmds[i]>>)
         ELSE LET rest == write_each(r.cmd_buf, r.enable, cmds, fs, i + 1) IN
              [cmd_buf |-> rest.cmd_buf, enable |-> rest.enable,
               calls |-> r.calls \o rest.calls, result |-> rest.result,
               cmds |-> <<cmds[i]>> \o rest.cmds]

configure_op(buf, en, config, fs) ==
    write_each(buf, en, as_commands(config), fs, 1)

init_op(en, config, fs) == configure_op(<<0, 0>>, en, config, fs)

reset_op(buf, en, full_reset, f) ==
    WithCmds(write(buf, en, reset_cmd(full_reset), f),
             <<reset_cmd(full_reset)>>)

power_down_op(buf, en, channels, f) ==
    WithCmds(write(buf, en, power_down_cmd(channels, 8), f),
             <<power_down_cmd(channels, 8)>>)

set_channel_op_check_late(buf, en, channel, value, f) ==
    LET cmd == BitOr(Channel_as_u16(channel), value % Pow2(U16Bits))
        r == WithCmds(write(buf, en, cmd, f), <<cmd>>) IN
    IF value > MaxValue
    THEN [cmd_buf |-> r.cmd_buf, enable |-> r.enable, calls |-> r.calls,
          result |-> Err("Oob", 0), cmds |-> r.cmds]
    ELSE r

\* set_channel, were its bound test `value >= 4095`
set_channel_op_bound_ge(buf, en, channel, value, f) ==
    IF value >= MaxValue
    THEN [cmd_buf |-> buf, enable |-> en, calls |-> <<>>,
          result |-> Err("Oob", 0), cmds |-> <<>>]
    ELSE LET cmd == BitOr(Channel_as_u16(channel), value) IN
         WithCmds(write(buf, en, cmd, f), <<cmd>>)

set_channel_op(buf, en, channel, value, f) ==
    IF value > MaxValue
    THEN [cmd_buf |-> buf, enable |-> en, calls |-> <<>>,
          result |-> Err("Oob", 0), cmds |-> <<>>]
    ELSE LET cmd == BitOr(Channel_as_u16(channel), value) IN
         WithCmds(write(buf, en, cmd, f), <<cmd>>)

------------------------------------------------------------------------------
(* Inputs of the calls *)

\* transport behaviours for the two frames of a configuration; what would
\* happen to a frame after a failed one is never asked of the transport
Schedules ==
    {fs \in Outcomes \X Outcomes : fs[1] # NoFail => fs[2] = NoFail}

Mask(bits) == [n \in 1..8 |-> (n - 1) \in bits]

SampleMasks == {Mask({}), Mask({0, 2}), Mask({1, 3, 5, 7}), Mask(0..7)}

SampleValues == {0, 1365, 2730, 4095, 4096, 32768, 65535}

SampleChannels == {"A", "D", "E", "H"}

SampleConfigs ==
    {DefaultConfig,
     [DefaultConfig EXCEPT !.vdd = <<"VddAsRef", "VddAsRef">>],
     [gain |-> <<"Gain0Vref", "Gain02Vref">>, buf |-> <<"Buffered", "Unbuffered">>,
      vdd |-> <<"ExternalRef", "VddAsRef">>, ldac |-> "LdacSingleUpdate"],
     [gain |-> <<"Gain02Vref", "Gain0Vref">>, buf |-> <<"Unbuffered", "Buffered">>,
      vdd |-> <<"VddAsRef", "ExternalRef">>, ldac |-> "LdacLow"]}

------------------------------------------------------------------------------
(* The driver used by a caller: any sequence of calls, any failures *)

\* call.again: the call has the operation and the arguments of the call
\* before it
NoCall ==
    [op |-> "none", arg |-> <<>>, result |-> [kind |-> "None", err |-> 0],
     cmds |-> <<>>, calls |-> <<>>, again |-> FALSE]

Again(op, arg) == call.result.kind \notin {"None", "Pending"} /\ call.op = op /\ call.arg = arg

Init ==
    /\ handle = "none"
    /\ cmd_buf = <<0, 0>>
    /\ enable = "unset"
    /\ call = NoCall

\* a call of a method on the handle returned: r is what it did
Return(op, arg, r) ==
    /\ cmd_buf' = r.cmd_buf
    /\ enable' = r.enable
    /\ call' = [op |-> op, arg |-> arg, result |-> r.result,
                cmds |-> r.cmds, calls |-> r.calls, again |-> Again(op, arg)]

\* init, were it to give out the handle whatever configure returned
ReturnInit_handle_always(config, r) ==
    /\ handle' = "live"
    /\ cmd_buf' = r.cmd_buf
    /\ enable' = r.enable
    /\ call' = [op |-> "init", arg |-> config, result |-> r.result,
                cmds |-> r.cmds, calls |-> r.calls,
                again |-> Again("init", config)]

\* Ad5328::init returned: the handle exists only if it returned Ok
ReturnInit(config, r) ==
    /\ handle' = IF r.result = Ok THEN "live" ELSE "none"
    /\ cmd_buf' = IF r.result = Ok THEN r.cmd_buf ELSE <<0, 0>>
    /\ enable' = r.enable
    /\ call' = [op |-> "init", arg |-> config, result |-> r.result,
                cmds |-> r.cmds, calls |-> r.calls,
                again |-> Again("init", config)]

init ==
    /\ handle = "none"
    /\ \E config \in SampleConfigs, fs \in Schedules :
          ReturnInit(config, init_op(enable, config, fs))

configure ==
    /\ handle = "live"
    /\ \E config \in SampleConfigs, fs \in Schedules :
          Return("configure", config, configure_op(cmd_buf, enable, config, fs))
    /\ UNCHANGED handle

reset ==
    /\ handle = "live"
    /\ \E full_reset \in BOOLEAN, f \in Outcomes :
          Return("reset", full_reset, reset_op(cmd_buf, enable, full_reset, f))
    /\ UNCHANGED handle

power_down ==
    /\ handle = "live"
    /\ \E channels \in SampleMasks, f \in Outcomes :
          Return("power_down", channels,
                 power_down_op(cmd_buf, enable, channels, f))
    /\ UNCHANGED handle

set_channel ==
    /\ handle = "live"
    /\ \E channel \in SampleChannels, value \in SampleValues, f \in Outcomes :
          Return("set_channel", [channel |-> channel, value |-> value],
                 set_channel_op(cmd_buf, enable, channel, value, f))
    /\ UNCHANGED handle

Next == init \/ configure \/ reset \/ power_down \/ set_channel

Spec == Init /\ [][Next]_vars

TypeOK ==
    /\ handle \in {"none", "live"}
    /\ cmd_buf \in (0..255) \X (0..255)
    /\ enable \in {"unset", "low", "high"}
    /\ call.op \in {"none", "init", "configure", "reset", "power_down", "set_channel"}
    /\ call.result.kind \in {"None", "Pending", "Ok", "Pin", "Spi", "Oob"}

------------------------------------------------------------------------------
(* One call with arguments drawn from the whole argument type *)

Pending == [kind |-> "Pending", err |-> 0]

Request(op, arg) ==
    [op |-> op, arg |-> arg, result |-> Pending, cmds |-> <<>>, calls |-> <<>>,
     again |-> FALSE]

U16Max == Pow2(U16Bits) - 1

\* every value the chip accepts, and the values on both ends of the rest
AllValues == 0..(MaxValue + 1) \cup {U16Max}

Requests ==
    {Request("init", config) : config \in Ad5328Config}
    \cup {Request("configure", config) : config \in Ad5328Config}
    \cup {Request("reset", full_reset) : full_reset \in BOOLEAN}
    \cup {Request("power_down", channels) : channels \in Masks}
    \cup {Request("set_channel", a) : a \in [channel : Channel, value : AllValues]}

\* the caller is about to make one call: init on no handle, any other call on
\* the handle that init(DefaultConfig) returned
EncInit ==
    /\ call \in Requests
    /\ handle = IF call.op = "init" THEN "none" ELSE "live"
    /\ cmd_buf = IF call.op = "init" THEN <<0, 0>> ELSE <<160, 1>>
    /\ enable = IF call.op = "init" THEN "unset" ELSE "high"

Requested(op) == call.op = op /\ call.result = Pending

run_init ==
    /\ handle = "none"
    /\ Requested("init")
    /\ \E fs \in Schedules : ReturnInit(call.arg, init_op(enable, call.arg, fs))

run_configure ==
    /\ handle = "live"
    /\ Requested("configure")
    /\ \E fs \in Schedules :
          Return("configure", call.arg,
                 configure_op(cmd_buf, enable, call.arg, fs))
    /\ UNCHANGED handle

run_reset ==
    /\ handle = "live"
    /\ Requested("reset")
    /\ \E f \in Outcomes :
          Return("reset", call.arg, reset_op(cmd_buf, enable, call.arg, f))
    /\ UNCHANGED handle

run_power_down ==
    /\ handle = "live"
    /\ Requested("power_down")
    /\ \E f \in Outcomes :
          Return("power_down", call.arg,
                 power_down_op(cmd_buf, enable, call.arg, f))
    /\ UNCHANGED handle

run_set_channel ==
    /\ handle = "live"
    /\ Requested("set_channel")
    /\ \E f \in Outcomes :
          Return("set_channel", call.arg,
                 set_channel_op(cmd_buf, enable, call.arg.channel,
                                call.arg.value, f))
    /\ UNCHANGED handle

EncNext ==
    run_init \/ run_configure \/ run_reset \/ run_power_down \/ run_set_channel

SpecEnc == EncInit /\ [][EncNext]_vars

------------------------------------------------------------------------------
(* Properties *)

Returned == call.result.kind \notin {"None", "Pending"}

\* the fixed address of each channel
ChannelAddress ==
    [A |-> 0, B |-> 1, C |-> 2, D |-> 3, E |-> 4, F |-> 5, G |-> 6, H |-> 7]

\* the 16-bit words of the bus writes among the calls cs, in order
RECURSIVE BusWords(_)
BusWords(cs) ==
    IF cs = <<>> THEN <<>>
    ELSE LET c == cs[Len(cs)]
             front == BusWords(SubSeq(cs, 1, Len(cs) - 1)) IN
         IF c.call = "write"
         THEN Append(front, c.bytes[1] * 256 + c.bytes[2])
         ELSE front

\* C1: for every channel c and every value v in 0..4095, set_channel(c, v)
\* hands the sequencer exactly one 16-bit word: bit 15 is 0, bits 14-12 are
\* the fixed address of c and bits 11-0 are v.
C1_ChannelWord ==
    (Returned /\ call.op = "set_channel" /\ call.arg.value \in 0..4095) =>
        /\ Len(call.cmds) = 1
        /\ call.cmds[1] \in 0..65535
        /\ Bit(call.cmds[1], 15) = 0
        /\ (call.cmds[1] \div 4096) % 8 = ChannelAddress[call.arg.channel]
        /\ call.cmds[1] % 4096 = call.arg.value

C1_Witness ==
    /\ call.op = "set_channel" /\ call.result = Ok
    /\ call.arg = [channel |-> "H", value |-> 4095]
    /\ call.cmds = <<32767>>

\* C2: for every channel and every value above 4095, set_channel returns the
\* out-of-bounds error and makes no call on the bus and none on the control
\* line, whatever the handle went through before.
C2_OobNoCalls ==
    (Returned /\ call.op = "set_channel" /\ call.arg.value > 4095) =>
        /\ call.result = Err("Oob", 0)
        /\ call.calls = <<>>
        /\ call.cmds = <<>>

\* an out-of-bounds call on a handle that a failed frame left with the line low
C2_Witness ==
    /\ call.op = "set_channel" /\ call.arg.value = 4096
    /\ call.result.kind = "Oob" /\ call.calls = <<>>
    /\ enable = "low" /\ cmd_buf # <<0, 0>>

\* C3: when no bus or pin call fails, every word of every operation is
\* transmitted as the calls [set low, one bus write of 2 bytes, set high] in
\* that order, the 2 bytes being the high byte then the low byte of the word.
C3_Framing ==
    call.result = Ok =>
        /\ Len(call.cmds) = (IF call.op \in {"configure", "init"} THEN 2 ELSE 1)
        /\ Len(call.calls) = 3 * Len(call.cmds)
        /\ \A i \in 1..Len(call.cmds) :
              /\ call.calls[3 * i - 2] =
                    [call |-> "set_low", bytes |-> <<>>, ok |-> TRUE, err |-> 0]
              /\ call.calls[3 * i - 1] =
                    [call |-> "write",
                     bytes |-> <<call.cmds[i] \div 256, call.cmds[i] % 256>>,
                     ok |-> TRUE, err |-> 0]
              /\ call.calls[3 * i] =
                    [call |-> "set_high", bytes |-> <<>>, ok |-> TRUE, err |-> 0]

C3_Witness ==
    /\ call.op = "configure" /\ call.result = Ok
    /\ call.arg = DefaultConfig
    /\ Len(call.calls) = 6
    /\ call.calls[2].bytes = <<128, 12>>
    /\ call.calls[5].bytes = <<160, 1>>

\* the code of each setting in the chip's registers
GainCode == [Gain0Vref |-> 0, Gain02Vref |-> 1]
BufCode == [Unbuffered |-> 0, Buffered |-> 1]
VddCode == [ExternalRef |-> 0, VddAsRef |-> 1]
LdacCode == [LdacLow |-> 0, LdacHigh |-> 1, LdacSingleUpdate |-> 2]

\* the control word of a Configuration, bit by bit
ControlWord(config) ==
    32768 + 16 * GainCode[config.gain[1]] + 32 * GainCode[config.gain[2]]
          + 4 * BufCode[config.buf[1]] + 8 * BufCode[config.buf[2]]
          + VddCode[config.vdd[1]] + 2 * VddCode[config.vdd[2]]

LatchWord(config) == 40960 + LdacCode[config.ldac]

\* C4: for every Configuration the encoder yields two words: word 1 has bit
\* 15 = 1, bits 4/5 the gains, bits 2/3 the bufferings and bits 0/1 the
\* reference sources of groups A-D/E-H and every other bit 0; word 2 is
\* 0xA000 OR the latch-mode code; the default Configuration yields
\* [0x800C, 0xA001].
C4_ConfigWords ==
    (Returned /\ call.op \in {"configure", "init"}) =>
        /\ Len(call.cmds) \in 1..2
        /\ call.cmds[1] = ControlWord(call.arg)
        /\ Bit(call.cmds[1], 15) = 1
        /\ Bit(call.cmds[1], 4) = GainCode[call.arg.gain[1]]
        /\ Bit(call.cmds[1], 5) = GainCode[call.arg.gain[2]]
        /\ Bit(call.cmds[1], 2) = BufCode[call.arg.buf[1]]
        /\ Bit(call.cmds[1], 3) = BufCode[call.arg.buf[2]]
        /\ Bit(call.cmds[1], 0) = VddCode[call.arg.vdd[1]]
        /\ Bit(call.cmds[1], 1) = VddCode[call.arg.vdd[2]]
        /\ \A n \in 6..14 : Bit(call.cmds[1], n) = 0
        /\ Len(call.cmds) = 2 => call.cmds[2] = LatchWord(call.arg)
        /\ call.result = Ok => Len(call.cmds) = 2
        /\ (call.result = Ok /\ call.arg = DefaultConfig) =>
              call.cmds = <<32780, 40961>>

C4_Witness ==
    /\ call.op = "configure" /\ call.result = Ok
    /\ call.arg = [gain |-> <<"Gain02Vref", "Gain0Vref">>,
                   buf |-> <<"Unbuffered", "Buffered">>,
                   vdd |-> <<"ExternalRef", "VddAsRef">>,
                   ldac |-> "LdacSingleUpdate"]
    /\ call.cmds = <<32794, 40962>>

\* C5: reset(full) transmits exactly one word, chosen by the flag alone:
\* 0xE000 when full is false and 0xF000 when full is true.
C5_ResetWord ==
    (Returned /\ call.op = "reset") =>
        /\ call.cmds = <<IF call.arg THEN 61440 ELSE 57344>>
        /\ Len(call.calls) >= 2 =>
              BusWords(call.calls) = <<IF call.arg THEN 61440 ELSE 57344>>
        /\ Len(call.calls) < 2 => BusWords(call.calls) = <<>>

C5_Witness ==
    /\ call.op = "reset" /\ call.arg = TRUE /\ call.result = Ok
    /\ call.calls[2].bytes = <<240, 0>>

\* C6: for every mask of 8 booleans power_down(mask) transmits exactly one
\* word: 0xC000 with bit n set iff mask[n] is true (n in 0..7) and bits 13-8
\* all 0; the mask [true,false,true,false,false,false,false,false] gives
\* 0xC005.
C6_PowerDownWord ==
    (Returned /\ call.op = "power_down") =>
        /\ Len(call.cmds) = 1
        /\ call.cmds[1] \div 256 = 192
        /\ \A n \in 0..7 : (Bit(call.cmds[1], n) = 1) <=> call.arg[n + 1]
        /\ call.arg = <<TRUE, FALSE, TRUE, FALSE, FALSE, FALSE, FALSE, FALSE>>
              => call.cmds[1] = 49157
        /\ call.result = Ok => BusWords(call.calls) = call.cmds

C6_Witness ==
    /\ call.op = "power_down" /\ call.result = Ok
    /\ call.arg = <<TRUE, FALSE, TRUE, FALSE, FALSE, FALSE, FALSE, FALSE>>
    /\ call.calls[2].bytes = <<192, 5>>

\* the index of the first failed call among cs, 0 if none failed
FirstFailure(cs) ==
    IF \E i \in 1..Len(cs) : ~cs[i].ok
    THEN CHOOSE i \in 1..Len(cs) : ~cs[i].ok /\ \A j \in 1..(i - 1) : cs[j].ok
    ELSE 0

\* the error a failed call on the control line or on the bus is reported as
ErrorOf(c) == [kind |-> IF c.call = "write" THEN "Spi" ELSE "Pin", err |-> c.err]

\* C7: in configure and init, when a step of the transmission of the first
\* word fails, no pin call and no bus call is made for the second word and
\* the operation returns that first failure.
C7_FailFastAcrossWords ==
    (Returned /\ call.op \in {"configure", "init"}
              /\ FirstFailure(call.calls) \in 1..3) =>
        /\ Len(call.calls) = FirstFailure(call.calls)
        /\ BusWords(call.calls) \in {<<>>, <<ControlWord(call.arg)>>}
        /\ call.result = ErrorOf(call.calls[FirstFailure(call.calls)])
        /\ call.result.err \in ErrVals

C7_Witness ==
    /\ call.op = "configure" /\ call.arg = DefaultConfig
    /\ Len(call.calls) = 2 /\ ~call.calls[2].ok
    /\ call.calls[2].bytes = <<128, 12>>
    /\ call.result = [kind |-> "Spi", err |-> 2]

\* C8: when a bus write fails while a word is transmitted (the second word
\* of configure included), the driver makes no further call: the last pin
\* call of the operation is the successful set-low and the line is still low
\* when the error is returned; a set-high call is made only after the bus
\* write of its frame succeeded.
C8_LeftLowOnFailure ==
    Returned =>
        /\ \A i \in 1..Len(call.calls) :
              (call.calls[i].call = "write" /\ ~call.calls[i].ok) =>
                  /\ i = Len(call.calls)
                  /\ i > 1
                  /\ call.calls[i - 1].call = "set_low" /\ call.calls[i - 1].ok
                  /\ enable = "low"
                  /\ call.result.kind = "Spi"
        /\ \A i \in 1..Len(call.calls) :
              call.calls[i].call = "set_high" =>
                  /\ i > 1
                  /\ call.calls[i - 1].call = "write" /\ call.calls[i - 1].ok

\* the bus fails on the second word of configure
C8_Witness ==
    /\ call.op = "configure" /\ call.result.kind = "Spi"
    /\ Len(call.calls) = 5
    /\ call.calls[3].call = "set_high" /\ call.calls[3].ok
    /\ call.calls[4].call = "set_low" /\ call.calls[4].ok
    /\ call.calls[5].call = "write" /\ ~call.calls[5].ok
    /\ enable = "low"

\* C9: init makes exactly the pin and bus calls that configure(config) makes;
\* it returns a handle only if both configuration words were transmitted
\* without a failure, and on a failure it returns that error and no handle.
C9_InitLikeConfigure ==
    call.op = "init" /\ Returned =>
        /\ \E fs \in Schedules :
              LET r == configure_op(<<255, 255>>, "high", call.arg, fs) IN
              r.calls = call.calls /\ r.result = call.result
        /\ handle = "live" <=> call.result = Ok
        /\ call.result = Ok =>
              /\ BusWords(call.calls) = <<ControlWord(call.arg), LatchWord(call.arg)>>
              /\ \A i \in 1..Len(call.calls) : call.calls[i].ok
        /\ call.result # Ok =>
              /\ FirstFailure(call.calls) = Len(call.calls)
              /\ call.result = ErrorOf(call.calls[Len(call.calls)])

\* init fails on the last call of the second word: no handle
C9_Witness ==
    /\ call.op = "init" /\ handle = "none"
    /\ Len(call.calls) = 6 /\ ~call.calls[6].ok
    /\ call.result.kind = "Pin"

\* the words a call put on the bus agree with those of another, as far as
\* both got
SameWords(ws, vs) ==
    \A i \in 1..Len(ws) : i <= Len(vs) => ws[i] = vs[i]

\* C10: configure called twice with the same Configuration puts the same
\* words on the bus both times, and the words it sends are those a fresh
\* handle sends for that Configuration, whatever was executed on the handle
\* before.
C10_ConfigureHistoryFree ==
    [][ call'.op = "configure" =>
          /\ (call.op \in {"configure", "init"} /\ call.arg = call'.arg) =>
                SameWords(BusWords(call.calls), BusWords(call'.calls))
          /\ \E fs \in Schedules :
                LET r == configure_op(<<0, 0>>, "unset", call'.arg, fs) IN
                r.calls = call'.calls /\ r.result = call'.result
          /\ call'.result = Ok =>
                BusWords(call'.calls) = call'.cmds ]_vars

\* a second configure with the same Configuration
C10_Witness ==
    /\ call.op = "configure" /\ call.again /\ call.result = Ok
    /\ BusWords(call.calls) = <<32783, 40961>>

\* C11: when a call on the control line (set low or set high) fails with the
\* error value e the operation returns the pin error wrapping e, and when
\* the bus write fails with e it returns the bus error wrapping e; a pin
\* failure is never reported as a bus error nor a bus failure as a pin error.
C11_ErrorMapping ==
    Returned =>
        /\ \A i \in 1..Len(call.calls) :
              ~call.calls[i].ok =>
                  /\ call.calls[i].err \in ErrVals
                  /\ call.result.err = call.calls[i].err
                  /\ call.calls[i].call \in {"set_low", "set_high"} =>
                        call.result.kind = "Pin"
                  /\ call.calls[i].call = "write" => call.result.kind = "Spi"
        /\ call.result.kind = "Pin" =>
              \E i \in 1..Len(call.calls) :
                  ~call.calls[i].ok /\ call.calls[i].call # "write"
        /\ call.result.kind = "Spi" =>
              \E i \in 1..Len(call.calls) :
                  ~call.calls[i].ok /\ call.calls[i].call = "write"

\* set_high fails with the error value 2
C11_Witness ==
    /\ call.op = "power_down"
    /\ Len(call.calls) = 3
    /\ call.calls[3] = [call |-> "set_high", bytes |-> <<>>, ok |-> FALSE, err |-> 2]
    /\ call.result = [kind |-> "Pin", err |-> 2]

\* the kinds of the calls cs, in order
CallNames(cs) == [i \in 1..Len(cs) |-> cs[i].call]

\* C12: on every configure and init call in which no bus or pin call fails,
\* exactly two frames are transmitted, the control word (0x80xx) first and
\* the latch-mode word (0xA00x) second, and the first frame is finished
\* (line driven high) before the second begins (line driven low).
C12_ConfigOrder ==
    (call.op \in {"configure", "init"} /\ call.result = Ok) =>
        /\ CallNames(call.calls) =
              <<"set_low", "write", "set_high", "set_low", "write", "set_high">>
        /\ call.calls[2].bytes[1] = 128
        /\ call.calls[2].bytes[2] = ControlWord(call.arg) - 32768
        /\ call.calls[5].bytes[1] = 160
        /\ call.calls[5].bytes[2] = LdacCode[call.arg.ldac]
        /\ call.calls[3].ok /\ call.calls[4].ok
        /\ enable = "high"

C12_Witness ==
    /\ call.op = "init" /\ call.result = Ok /\ handle = "live"
    /\ call.arg.ldac = "LdacSingleUpdate"
    /\ call.calls[2].bytes = <<128, 63>>
    /\ call.calls[5].bytes = <<160, 2>>

\* C13: within one frame, when driving the line low fails, the bus write and
\* the set-high call of that frame are never made and the pin error is
\* returned at once; the first failing step among set-low, bus write and
\* set-high is the last call the operation makes.
C13_FailFastInFrame ==
    Returned =>
        /\ \A i \in 1..Len(call.calls) :
              ~call.calls[i].ok => (i = Len(call.calls) /\ call.result # Ok)
        /\ \A i \in 1..Len(call.calls) :
              (call.calls[i].call = "set_low" /\ ~call.calls[i].ok) =>
                  /\ call.result = [kind |-> "Pin", err |-> call.calls[i].err]
                  /\ Len(BusWords(call.calls)) = (i - 1) \div 3
        /\ call.result # Ok /\ call.result.kind # "Oob" =>
              (call.calls # <<>> /\ ~call.calls[Len(call.calls)].ok)

\* set_low fails at the start of the second frame of a configure
C13_Witness ==
    /\ call.op = "configure" /\ Len(call.calls) = 4
    /\ call.calls[4].call = "set_low" /\ ~call.calls[4].ok
    /\ call.result.kind = "Pin"
    /\ Len(BusWords(call.calls)) = 1

\* the number of calls named name among cs
Count(cs, name) == Len(SelectSeq(cs, LAMBDA c : c.call = name))

\* C14: no retries: in one call of a public operation each step is attempted
\* at most once per word, so reset, power_down and set_channel make at most
\* 1 set-low, 1 bus write and 1 set-high call, and configure and init at most
\* 2 of each, whatever fails.
C14_NoRetries ==
    Returned =>
        LET most == IF call.op \in {"configure", "init"} THEN 2 ELSE 1 IN
        /\ Count(call.calls, "set_low") <= most
        /\ Count(call.calls, "write") <= most
        /\ Count(call.calls, "set_high") <= most
        /\ Count(call.calls, "set_low") <= Len(call.cmds)
        /\ Count(call.calls, "write") <= Count(call.calls, "set_low")
        /\ Count(call.calls, "set_high") <= Count(call.calls, "write")

\* a reset whose set_low failed: one call, not tried again
C14_Witness ==
    /\ call.op = "reset" /\ call.result.kind = "Pin"
    /\ Count(call.calls, "set_low") = 1
    /\ Len(call.calls) = 1

\* the variants of Error
ErrorKinds == {"Spi", "Pin", "Conn", "Address", "Port", "Oob"}

\* C15: no operation returns the connection, address or port error: every
\* error returned is a bus error, a pin error or out-of-bounds; out-of-bounds
\* is returned only by set_channel and only when value > 4095, and it is the
\* only error returned without a bus or pin call having been made.
C15_ErrorKinds ==
    (Returned /\ call.result # Ok) =>
        /\ call.result.kind \in ErrorKinds \ {"Conn", "Address", "Port"}
        /\ call.result.kind = "Oob" =>
              (call.op = "set_channel" /\ call.arg.value > 4095)
        /\ call.calls = <<>> => call.result.kind = "Oob"
        /\ call.result.kind = "Oob" => call.calls = <<>>

\* set_channel rejects the largest u16 without touching the transport
C15_Witness ==
    /\ call.op = "set_channel" /\ call.arg.value = 65535
    /\ call.result.kind = "Oob" /\ call.calls = <<>>

\* C16: in the calls of every operation, each bus write comes right after a
\* successful set-low call and each set-high call right after a successful
\* bus write: no bus write outside an opened frame, and no two set-high calls
\* without a set-low and a bus write between them.
C16_FrameDiscipline ==
    Returned =>
        /\ call.calls # <<>> => call.calls[1].call = "set_low"
        /\ \A i \in 1..Len(call.calls) :
              call.calls[i].call = "write" =>
                  /\ i > 1
                  /\ call.calls[i - 1].call = "set_low"
                  /\ call.calls[i - 1].ok
        /\ \A i \in 1..Len(call.calls) :
              call.calls[i].call = "set_high" =>
                  /\ i > 1
                  /\ call.calls[i - 1].call = "write"
                  /\ call.calls[i - 1].ok
        /\ \A i, j \in 1..Len(call.calls) :
              (i < j /\ call.calls[i].call = "set_high"
                     /\ call.calls[j].call = "set_high") =>
                  \E k, l \in (i + 1)..(j - 1) :
                      /\ k < l
                      /\ call.calls[k].call = "set_low"
                      /\ call.calls[l].call = "write"

\* two frames in one operation, the second set-high failing
C16_Witness ==
    /\ call.op = "configure" /\ Len(call.calls) = 6
    /\ call.calls[3].call = "set_high" /\ call.calls[3].ok
    /\ call.calls[6].call = "set_high" /\ ~call.calls[6].ok

\* the first and the last word of each command class
ClassRange ==
    [channel_write |-> <<0, 32767>>,
     control       |-> <<32768, 32831>>,
     latch         |-> <<40960, 40962>>,
     power_down    |-> <<49152, 49407>>,
     reset_partial |-> <<57344, 57344>>,
     reset_full    |-> <<61440, 61440>>]

ClassesOf(w) ==
    {c \in DOMAIN ClassRange : ClassRange[c][1] <= w /\ w <= ClassRange[c][2]}

\* the class of the i-th word of an operation
ClassSent(op, arg, i) ==
    IF op = "set_channel" THEN "channel_write"
    ELSE IF op = "power_down" THEN "power_down"
    ELSE IF op = "reset" THEN (IF arg THEN "reset_full" ELSE "reset_partial")
    ELSE IF i = 1 THEN "control" ELSE "latch"

\* C17: the sets of words of the command classes are pairwise disjoint, so
\* every word the driver puts on the bus identifies exactly one command
\* class; a channel-write word determines its (channel, value) pair and a
\* power-down word its mask.
C17_ClassesDisjoint ==
    /\ \A c, d \in DOMAIN ClassRange :
          c # d => (ClassRange[c][2] < ClassRange[d][1]
                    \/ ClassRange[d][2] < ClassRange[c][1])
    /\ Returned =>
          LET ws == BusWords(call.calls) IN
          /\ Len(ws) <= Len(call.cmds)
          /\ \A i \in 1..Len(ws) :
                /\ ws[i] = call.cmds[i]
                /\ ClassesOf(ws[i]) = {ClassSent(call.op, call.arg, i)}
          /\ \A i \in 1..Len(call.cmds) :
                ClassesOf(call.cmds[i]) = {ClassSent(call.op, call.arg, i)}
          /\ (call.op = "set_channel" /\ call.cmds # <<>>) =>
                call.arg = [channel |-> ChannelOrder[(call.cmds[1] \div 4096) + 1],
                            value |-> call.cmds[1] % 4096]
          /\ call.op = "power_down" =>
                call.arg = [n \in 1..8 |-> Bit(call.cmds[1], n - 1) = 1]

\* the latch-mode word of the single-update mode on the bus
C17_Witness ==
    /\ call.op = "configure" /\ call.result = Ok
    /\ call.arg.ldac = "LdacSingleUpdate"
    /\ BusWords(call.calls)[2] = 40962
    /\ ClassesOf(40962) = {"latch"}

\* the words an operation hands to the sequencer
OpWords(op, arg) ==
    IF op \in {"configure", "init"} THEN as_commands(arg)
    ELSE IF op = "reset" THEN <<reset_cmd(arg)>>
    ELSE IF op = "power_down" THEN <<power_down_cmd(arg, 8)>>
    ELSE <<BitOr(Channel_as_u16(arg.channel), arg.value)>>

\* a handle that takes a new zeroed buffer for every word: its calls and its
\* result for the words cmds from the i-th on
RECURSIVE FreshEach(_, _, _)
FreshEach(cmds, fs, i) ==
    IF i > Len(cmds) THEN [calls |-> <<>>, result |-> Ok]
    ELSE LET r == write(<<0, 0>>, "high", cmds[i], fs[i]) IN
         IF r.result # Ok THEN [calls |-> r.calls, result |-> r.result]
         ELSE LET rest == FreshEach(cmds, fs, i + 1) IN
              [calls |-> r.calls \o rest.calls, result |-> rest.result]

FreshOp(op, arg, fs) ==
    IF op = "set_channel" /\ arg.value > MaxValue
    THEN [calls |-> <<>>, result |-> [kind |-> "Oob", err |-> 0]]
    ELSE FreshEach(OpWords(op, arg), fs, 1)

\* C18: the reusable transmit buffer is not observable: the handle that keeps
\* its buffer across calls makes the calls and returns the result of a handle
\* that takes a new zeroed buffer for every word, for every sequence of
\* operations and failures; the bytes of a bus write hold nothing of an
\* earlier word.
C18_BufferNotObservable ==
    Returned =>
        /\ \E fs \in Schedules :
              FreshOp(call.op, call.arg, fs) =
                  [calls |-> call.calls, result |-> call.result]
        /\ \A i \in 1..Len(BusWords(call.calls)) :
              BusWords(call.calls)[i] = call.cmds[i]
        /\ \A i \in 1..Len(call.calls) :
              call.calls[i].call = "write" =>
                  call.calls[i].bytes =
                      <<call.cmds[(i + 1) \div 3] \div 256,
                        call.cmds[(i + 1) \div 3] % 256>>

\* the all-zero word sent from a buffer that held the bytes of another word
C18_Witness ==
    /\ call.op = "set_channel" /\ call.again = FALSE
    /\ call.arg = [channel |-> "A", value |-> 0]
    /\ call.result = Ok
    /\ call.calls[2].bytes = <<0, 0>>

Bytes(w) == <<w \div 256, w % 256>>

\* the number of set_low calls among cs that succeeded
FramesOpened(cs) ==
    Len(SelectSeq(cs, LAMBDA c : c.call = "set_low" /\ c.ok))

\* C19 as stated: after every call of a public operation the buffer holds the
\* high and the low byte of the word of that call.
C19_BufferHoldsWord ==
    (Returned /\ handle = "live" /\ call.cmds # <<>>) =>
        cmd_buf = Bytes(call.cmds[Len(call.cmds)])

\* C19: after a call of a public operation the buffer holds the high and the
\* low byte of the last word of that call for which the line was driven low;
\* when no set-low call of the operation succeeded (or set_channel rejected
\* the value) the buffer is as it was before the call.
C19_BufferAfterCall ==
    [][ (handle' = "live" /\ call'.result.kind \notin {"None", "Pending"}) =>
          IF FramesOpened(call'.calls) = 0
          THEN handle = "live" /\ cmd_buf' = cmd_buf
          ELSE cmd_buf' = Bytes(call'.cmds[FramesOpened(call'.calls)]) ]_vars

\* a reset whose set_low failed: the buffer still holds the latch-mode word of
\* the configuration before it
C19_Witness ==
    /\ handle = "live" /\ call.op = "reset" /\ call.arg = TRUE
    /\ Len(call.calls) = 1 /\ ~call.calls[1].ok
    /\ cmd_buf = <<160, 1>>
    /\ call.cmds = <<61440>>

====
